---- MODULE Spec2Model ----
(***************************************************************************)
(* A model of stats-server/log_parser/report.py: PlayerStats, RoundReport, *)
(* MatchReport and MatchReportCollection.                                  *)
(*                                                                         *)
(* Python objects are records.  A tuple() copy is a sequence held by       *)
(* value; a list that the code stores without copying is held by           *)
(* reference, i.e. the object reads the caller's variable.                 *)
(* The event classes (log_parser/event.py) and the entities                *)
(* (log_parser/entity.py) are not part of report.py; they are modelled     *)
(* from the specification's capability contract.                           *)
(***************************************************************************)
EXTENDS Integers, Sequences, FiniteSets, TLC

\* ------------------------------------------------------------------ bounds
MaxEvents == 2      \* events in one round, and in the match-level event list
MaxCalls == 2       \* accumulation calls on one accumulator / one collection
MaxRounds == 2      \* rounds in one match
MaxMatches == 2     \* matches in the container handed to a collection

\* ---------------------------------------------------------------- entities
CT_team == "CT"
Terrorist_team == "TERRORIST"
Spectator_team == "SPECTATOR"
None == "None"

Players == {"p1", "p2", "p3"}
Weapons == {"ak47", "knife"}
Times == {0, 2}

\* --------------------------------------------------------------- PlayerStats
\* damage_inflicted_by_weapon is a defaultdict(int): every weapon reads 0
\* until something is added to it.
PlayerStats == [damage_inflicted |-> 0, damage_received |-> 0, kills |-> 0,
     deaths |-> 0, rounds_won |-> 0, rounds_lost |-> 0, time_spent |-> 0,
     damage_inflicted_by_weapon |-> [w \in Weapons |-> 0]]

total_rounds_played(stats) == stats.rounds_won + stats.rounds_lost

\* -------------------------------------------------------------------- events
AttackEvent(ts, a, v, w, d) ==
    [kind |-> "attack", ts |-> ts, attacker |-> a, victim |-> v, weapon |-> w, damage |-> d]
KillEvent(ts, a, v, w) ==
    [kind |-> "kill", ts |-> ts, attacker |-> a, victim |-> v, weapon |-> w, damage |-> 0]
RoundEndEvent(ts) ==
    [kind |-> "round_end", ts |-> ts, attacker |-> None, victim |-> None, weapon |-> None, damage |-> 0]
OtherEvent(ts) ==
    [kind |-> "other", ts |-> ts, attacker |-> None, victim |-> None, weapon |-> None, damage |-> 0]

is_attack(event) == event.kind = "attack"
is_kill(event) == event.kind = "kill"
get_timestamp(event) == event.ts

\* ---------------------------------------------------------------- RoundReport
\* __init__: events and rosters are copied into tuples, so the record holds
\* them by value.
RoundReport(start_time, end_time, events, team_composition, winner_team) ==
    [start_time |-> start_time, end_time |-> end_time, events |-> events,
     team_composition |-> team_composition, winner_team |-> winner_team]

get_round_duration(round) == round.end_time - round.start_time

get_events(round) == round.events

get_team_composition(round, team) == round.team_composition[team]

get_winner_team(round) == round.winner_team

\* ignore spectators
get_all_players(round) ==
    get_team_composition(round, CT_team) \o get_team_composition(round, Terrorist_team)

Range(seq) == {seq[i] : i \in DOMAIN seq}

\* event.impact_player_stats(player, stats, round)
impact_player_stats(event, player, stats, round) ==
    CASE event.kind = "attack" ->
           LET s1 == IF event.attacker = player
                     THEN [stats EXCEPT !.damage_inflicted = @ + event.damage,
                                        !.damage_inflicted_by_weapon[event.weapon] = @ + event.damage]
                     ELSE stats
           IN  IF event.victim = player
               THEN [s1 EXCEPT !.damage_received = @ + event.damage]
               ELSE s1
      [] event.kind = "kill" ->
           LET s1 == IF event.attacker = player THEN [stats EXCEPT !.kills = @ + 1] ELSE stats
           IN  IF event.victim = player THEN [s1 EXCEPT !.deaths = @ + 1] ELSE s1
      [] event.kind = "round_end" ->
           IF get_winner_team(round) # None
              /\ player \in Range(get_team_composition(round, get_winner_team(round)))
           THEN [stats EXCEPT !.rounds_won = @ + 1]
           ELSE [stats EXCEPT !.rounds_lost = @ + 1]
      [] OTHER -> stats

\* for event in self.get_events(): event.impact_player_stats(player, stats, self)
RECURSIVE apply_events(_, _, _, _)
apply_events(events, player, stats, round) ==
    IF events = << >> THEN stats
    ELSE apply_events(Tail(events), player,
                      impact_player_stats(Head(events), player, stats, round), round)

add_to_player_stats_negated(round, player, stats) ==
    IF player \in Range(get_all_players(round))
    THEN LET s1 == apply_events(get_events(round), player, stats, round)
         IN  [s1 EXCEPT !.time_spent = @ - get_round_duration(round)]
    ELSE stats

add_to_player_stats_unguarded(round, player, stats) ==
    LET s1 == apply_events(get_events(round), player, stats, round)
    IN  [s1 EXCEPT !.time_spent = @ + get_round_duration(round)]

add_to_player_stats_twice(round, player, stats) ==
    IF player \in Range(get_all_players(round))
    THEN LET s1 == apply_events(get_events(round) \o get_events(round), player, stats, round)
         IN  [s1 EXCEPT !.time_spent = @ + get_round_duration(round)]
    ELSE stats

\* RoundReport.add_to_player_stats: the accumulator after the call
add_to_player_stats(round, player, stats) ==
    IF player \in Range(get_all_players(round))
    THEN LET s1 == apply_events(get_events(round), player, stats, round)
         IN  [s1 EXCEPT !.time_spent = @ + get_round_duration(round)]
    ELSE stats

\* RoundReport.get_player_stats: the assert fails for a non-participant
get_player_stats(round, player) ==
    IF player \in Range(get_all_players(round))
    THEN [raised |-> None, value |-> <<add_to_player_stats(round, player, PlayerStats)>>]
    ELSE [raised |-> "AssertionError", value |-> << >>]

\* ---------------------------------------------------------------- MatchReport
\* __init__: rounds are copied into a tuple (held by value); match_events is
\* stored as given, so the field is the caller's list itself.
MatchReport(match_events, map_name, rounds) ==
    [match_events |-> match_events, map_name |-> map_name, round_reports |-> rounds]

get_round_reports(match) == match.round_reports

get_map_name(match) == match.map_name

\* (event for round in self.get_round_reports() for event in round.get_events())
RECURSIVE concat_round_events(_)
concat_round_events(rounds) ==
    IF rounds = << >> THEN << >>
    ELSE get_events(Head(rounds)) \o concat_round_events(Tail(rounds))

all_round_events_reversed(match) ==
    LET n == Len(get_round_reports(match))
    IN  concat_round_events([i \in 1..n |-> get_round_reports(match)[n + 1 - i]])

all_round_events(match) == concat_round_events(get_round_reports(match))

RECURSIVE first_attack_in(_)
first_attack_in(events) ==
    IF events = << >> THEN [raised |-> "Exception", value |-> << >>]
    ELSE IF is_attack(Head(events)) THEN [raised |-> None, value |-> <<Head(events)>>]
    ELSE first_attack_in(Tail(events))

get_first_attack(match) == first_attack_in(all_round_events(match))

\* a generator, rebuilt on every call: the kills in round order, event order
get_all_kills(match) == SelectSeq(all_round_events(match), is_kill)

\* next(iter(...)) raises StopIteration on an empty generator
get_first_kill(match) ==
    IF get_all_kills(match) = << >>
    THEN [raised |-> "StopIteration", value |-> << >>]
    ELSE [raised |-> None, value |-> <<Head(get_all_kills(match))>>]

get_start_time(match) ==
    IF match.match_events = << >>
    THEN [raised |-> "IndexError", value |-> << >>]
    ELSE [raised |-> None, value |-> <<get_timestamp(match.match_events[1])>>]

get_end_time(match) ==
    IF match.match_events = << >>
    THEN [raised |-> "IndexError", value |-> << >>]
    ELSE [raised |-> None,
          value |-> <<get_timestamp(match.match_events[Len(match.match_events)])>>]

\* the loop of get_rounds_by_winner_team over the rounds still to visit
RECURSIVE rounds_by_winner_loop(_, _)
rounds_by_winner_loop(rounds, acc) ==
    IF rounds = << >> THEN acc
    ELSE LET winner_team == get_winner_team(Head(rounds))
         IN  rounds_by_winner_loop(Tail(rounds),
                 IF winner_team # None
                 THEN [acc EXCEPT ![winner_team] = Append(@, Head(rounds))]
                 ELSE acc)

get_rounds_by_winner_team_no_test(match) ==
    LET credit(r) == IF get_winner_team(r) = None THEN Terrorist_team ELSE get_winner_team(r)
        RECURSIVE loop(_, _)
        loop(rounds, acc) ==
            IF rounds = << >> THEN acc
            ELSE loop(Tail(rounds), [acc EXCEPT ![credit(Head(rounds))] = Append(@, Head(rounds))])
    IN  loop(get_round_reports(match), [team \in {CT_team, Terrorist_team} |-> << >>])

get_rounds_by_winner_team(match) ==
    rounds_by_winner_loop(get_round_reports(match),
                          [team \in {CT_team, Terrorist_team} |-> << >>])

get_scores(match) ==
    [team \in DOMAIN get_rounds_by_winner_team(match) |->
        Len(get_rounds_by_winner_team(match)[team])]

get_team_score(match, team) == get_scores(match)[team]

\* MatchReport.add_to_player_stats: every round, in order
RECURSIVE add_rounds_to_player_stats(_, _, _)
add_rounds_to_player_stats(rounds, player, stats) ==
    IF rounds = << >> THEN stats
    ELSE add_rounds_to_player_stats(Tail(rounds), player,
                                    add_to_player_stats(Head(rounds), player, stats))

MatchReport_add_to_player_stats_skip_first(match, player, stats) ==
    IF get_round_reports(match) = << >> THEN stats
    ELSE add_rounds_to_player_stats(Tail(get_round_reports(match)), player, stats)

MatchReport_add_to_player_stats(match, player, stats) ==
    add_rounds_to_player_stats(get_round_reports(match), player, stats)

MatchReport_get_player_stats(match, player) ==
    MatchReport_add_to_player_stats(match, player, PlayerStats)

\* {player for round in self.get_round_reports() for player in round.get_all_players()}
MatchReport_get_all_players(match) ==
    UNION {Range(get_all_players(get_round_reports(match)[i])) :
              i \in DOMAIN get_round_reports(match)}

MatchReport_get_all_player_stats(match) ==
    [player \in MatchReport_get_all_players(match) |-> MatchReport_get_player_stats(match, player)]

\* MatchReport.add_to_player_stats_table.  `order` is the order in which the
\* set get_all_players() is iterated.  table[player] raises KeyError on a
\* plain dict and creates PlayerStats() on collect_stats's defaultdict.
RECURSIVE table_loop(_, _, _, _)
table_loop(match, table, order, is_defaultdict) ==
    IF order = << >> THEN [raised |-> None, table |-> table]
    ELSE LET player == Head(order)
         IN  IF player \notin DOMAIN table /\ ~is_defaultdict
             THEN [raised |-> "KeyError", table |-> table]
             ELSE LET t1 == IF player \in DOMAIN table THEN table
                            ELSE table @@ (player :> PlayerStats)
                      t2 == [t1 EXCEPT ![player] =
                                MatchReport_add_to_player_stats(match, player, @)]
                  IN  table_loop(match, t2, Tail(order), is_defaultdict)

add_to_player_stats_table_checked_first(match, table, order, is_defaultdict) ==
    IF ~is_defaultdict /\ ~(Range(order) \subseteq DOMAIN table)
    THEN [raised |-> "KeyError", table |-> table]
    ELSE table_loop(match, table, order, is_defaultdict)

add_to_player_stats_table(match, table, order, is_defaultdict) ==
    table_loop(match, table, order, is_defaultdict)

\* ------------------------------------------------------ MatchReportCollection
\* the body of collect_stats: one add_to_player_stats_table per report, in the
\* container's order, on one defaultdict(PlayerStats)
RECURSIVE collect_loop(_, _, _)
collect_loop(reports, orders, table) ==
    IF reports = << >> THEN [raised |-> None, table |-> table]
    ELSE LET r == add_to_player_stats_table(Head(reports), table, Head(orders), TRUE)
         IN  IF r.raised # None THEN r
             ELSE collect_loop(Tail(reports), Tail(orders), r.table)

collect_stats_body(match_reports_now, orders) ==
    collect_loop(match_reports_now, orders, [player \in {} |-> PlayerStats])

collect_stats_uncached(cache_now, computed, match_reports_now, orders) ==
    LET r == collect_stats_body(match_reports_now, orders)
    IN  [cache |-> <<[id |-> computed + 1, table |-> r.table]>>, computed |-> computed + 1,
         ran |-> TRUE, raised |-> r.raised, id |-> computed + 1, value |-> <<r.table>>]

\* @lru_cache(maxsize=None) around collect_stats, for one instance: a hit
\* returns the stored object; a miss runs the body and stores what it
\* returns, and stores nothing when the body raises.  `id` tells table
\* objects apart: every run of the body makes a new one.
collect_stats(cache_now, computed, match_reports_now, orders) ==
    IF cache_now # << >>
    THEN [cache |-> cache_now, computed |-> computed, ran |-> FALSE, raised |-> None,
          id |-> cache_now[1].id, value |-> <<cache_now[1].table>>]
    ELSE LET r == collect_stats_body(match_reports_now, orders)
         IN  IF r.raised # None
             THEN [cache |-> cache_now, computed |-> computed + 1, ran |-> TRUE,
                   raised |-> r.raised, id |-> 0, value |-> << >>]
             ELSE [cache |-> <<[id |-> computed + 1, table |-> r.table]>>,
                   computed |-> computed + 1, ran |-> TRUE, raised |-> None,
                   id |-> computed + 1, value |-> <<r.table>>]

RECURSIVE sum_round_counts(_)
sum_round_counts(reports) ==
    IF reports = << >> THEN 0
    ELSE Len(get_round_reports(Head(reports))) + sum_round_counts(Tail(reports))

get_total_number_of_rounds(match_reports_now) == sum_round_counts(match_reports_now)

\* ------------------------------------------------------- inputs of the model
SeqsUpTo(S, n) == UNION {[1..k -> S] : k \in 0..n}

RoundEventCatalog ==
    {AttackEvent(0, "p1", "p2", "ak47", 3), KillEvent(0, "p1", "p2", "ak47"),
     RoundEndEvent(2), OtherEvent(0)}

Rosters(ct, t) == [team \in {CT_team, Terrorist_team} |-> IF team = CT_team THEN ct ELSE t]
RostersWithSpectators(ct, t, sp) ==
    [team \in {CT_team, Terrorist_team, Spectator_team} |->
        IF team = CT_team THEN ct ELSE IF team = Terrorist_team THEN t ELSE sp]

Compositions ==
    {Rosters(<<"p1">>, <<"p2">>),
     Rosters(<<"p2">>, <<"p1", "p3">>),
     RostersWithSpectators(<<"p1", "p2">>, << >>, <<"p3">>)}

Winners == {CT_team, Terrorist_team, None}

Rounds ==
    {RoundReport(s, e, ev, tc, w) :
        s \in Times, e \in Times, ev \in SeqsUpTo(RoundEventCatalog, MaxEvents),
        tc \in Compositions, w \in Winners}

\* rounds, events and matches that matches and collections are built from
RoundA ==
    RoundReport(0, 60, <<AttackEvent(9, "p1", "p2", "ak47", 3),
                         KillEvent(10, "p1", "p2", "ak47"), RoundEndEvent(60)>>,
                Rosters(<<"p1">>, <<"p2">>), CT_team)
RoundB ==
    RoundReport(60, 105, <<RoundEndEvent(105)>>,
                Rosters(<<"p1">>, <<"p2">>), Terrorist_team)
RoundC ==
    RoundReport(0, 30, <<AttackEvent(5, "p2", "p3", "knife", 3), RoundEndEvent(30)>>,
                Rosters(<<"p3">>, <<"p2">>), None)
RoundD ==
    RoundReport(0, 10, << >>,
                RostersWithSpectators(<<"p1">>, <<"p2">>, <<"p3">>), None)

RoundCatalog == {RoundA, RoundB, RoundC, RoundD}

MatchCatalog ==
    {MatchReport(<<OtherEvent(0), OtherEvent(105)>>, "de_dust2", <<RoundA, RoundB>>),
     MatchReport(<<OtherEvent(0)>>, "de_inferno", <<RoundC>>),
     MatchReport(<< >>, "de_nuke", <<RoundD, RoundA>>)}

MatchEventCatalog == {AttackEvent(0, "p1", "p2", "ak47", 3), OtherEvent(2)}

Seed ==
    [PlayerStats EXCEPT !.kills = 1, !.rounds_won = 1, !.time_spent = 60,
                         !.damage_inflicted = 3,
                         !.damage_inflicted_by_weapon = [w \in Weapons |-> IF w = "ak47" THEN 3 ELSE 0]]

SeedStats == {PlayerStats, Seed}

Perms(S) == {f \in [1..Cardinality(S) -> S] : Range(f) = S}

\* the dicts a caller may hand to add_to_player_stats_table
CallerTables == {[p \in K |-> IF p = "p2" THEN Seed ELSE PlayerStats] : K \in SUBSET Players}

\* one iteration order of get_all_players() per report of the container
RECURSIVE OrdersFor(_)
OrdersFor(reports) ==
    IF reports = << >> THEN {<< >>}
    ELSE {<<o>> \o rest : o \in Perms(MatchReport_get_all_players(Head(reports))),
                          rest \in OrdersFor(Tail(reports))}

\* ------------------------------------------------------------------- state
VARIABLES
    round,          \* SpecRound: the RoundReport under test
    stats,          \* SpecRound: the caller's PlayerStats accumulator
    ncalls,         \* SpecRound: accumulation calls made on stats
    rlast,          \* SpecRound: the last call, its argument and its outcome
    match_events,   \* SpecMatch: the list passed as match_events; the caller
                    \*   and MatchReport._match_events are the same list
    caller_rounds,  \* SpecMatch: the caller's list that was passed as rounds
    round_reports,  \* SpecMatch: MatchReport._round_reports, the tuple copy
    mlast,          \* SpecMatch: the last call, its arguments and its outcome
    match_reports,  \* SpecColl: the container passed to MatchReportCollection;
                    \*   the caller and self._match_reports are the same object
    cache,          \* SpecColl: collect_stats's lru_cache entry for the instance
    computations,   \* SpecColl: how often the body of collect_stats has run
    first_return,   \* SpecColl: what the first collect_stats() call returned
    clast           \* SpecColl: the last call, its arguments and its outcome

rvars == <<round, stats, ncalls, rlast>>
mvars == <<match_events, caller_rounds, round_reports, mlast>>
cvars == <<match_reports, cache, computations, first_return, clast>>
vars == <<round, stats, ncalls, rlast, match_events, caller_rounds, round_reports, mlast,
          match_reports, cache, computations, first_return, clast>>

NoCall == [op |-> "none", index |-> 0, player |-> None, before |-> PlayerStats,
           raised |-> None, value |-> << >>]

RIdle ==
    /\ round = RoundReport(0, 0, << >>, Rosters(<< >>, << >>), None)
    /\ stats = PlayerStats
    /\ ncalls = 0
    /\ rlast = NoCall

MIdle ==
    /\ match_events = << >>
    /\ caller_rounds = << >>
    /\ round_reports = << >>
    /\ mlast = NoCall

NoCollCall == [op |-> "none", index |-> 0, order |-> << >>, before |-> << >>,
               ran |-> FALSE, raised |-> None, id |-> 0, value |-> << >>]

CIdle ==
    /\ match_reports = << >>
    /\ cache = << >>
    /\ computations = 0
    /\ first_return = << >>
    /\ clast = NoCollCall

\* ------------------------------------------------- SpecRound: one RoundReport
RInit ==
    /\ round \in Rounds
    /\ stats = PlayerStats
    /\ ncalls = 0
    /\ rlast = NoCall
    /\ MIdle
    /\ CIdle

\* round.add_to_player_stats(p, stats)
RAddToPlayerStats(p) ==
    /\ ncalls < MaxCalls
    /\ stats' = add_to_player_stats(round, p, stats)
    /\ ncalls' = ncalls + 1
    /\ rlast' = [op |-> "add", index |-> 0, player |-> p, before |-> stats,
                 raised |-> None, value |-> << >>]
    /\ UNCHANGED round
    /\ UNCHANGED <<mvars, cvars>>

\* round.get_player_stats(p)
RGetPlayerStats(p) ==
    /\ rlast' = [op |-> "get", index |-> 0, player |-> p, before |-> stats,
                 raised |-> get_player_stats(round, p).raised,
                 value |-> get_player_stats(round, p).value]
    /\ UNCHANGED <<round, stats, ncalls>>
    /\ UNCHANGED <<mvars, cvars>>

RNext ==
    \/ \E p \in Players : RAddToPlayerStats(p)
    \/ \E p \in Players : RGetPlayerStats(p)

SpecRound == RInit /\ [][RNext]_vars

\* ------------------------------------------------- SpecMatch: one MatchReport
\* the MatchReport object: its _match_events field is the shared list
Match == MatchReport(match_events, "de_dust2", round_reports)

MInit ==
    /\ match_events \in SeqsUpTo(MatchEventCatalog, MaxEvents)
    /\ caller_rounds \in SeqsUpTo(RoundCatalog, MaxRounds)
    /\ round_reports = caller_rounds
    /\ mlast = NoCall
    /\ RIdle
    /\ CIdle

Called(op, index, player, before, raised, value) ==
    [op |-> op, index |-> index, player |-> player, before |-> before,
     raised |-> raised, value |-> value]

\* match.get_round_reports()[i].add_to_player_stats(p, s)
MRoundAddToPlayerStats(i, p, s) ==
    /\ mlast' = Called("round_add", i, p, s, None,
                       <<add_to_player_stats(get_round_reports(Match)[i], p, s)>>)
    /\ UNCHANGED <<match_events, caller_rounds, round_reports>>
    /\ UNCHANGED <<rvars, cvars>>

\* match.get_round_reports()[i].get_player_stats(p)
MRoundGetPlayerStats(i, p) ==
    /\ mlast' = Called("round_get", i, p, PlayerStats,
                       get_player_stats(get_round_reports(Match)[i], p).raised,
                       get_player_stats(get_round_reports(Match)[i], p).value)
    /\ UNCHANGED <<match_events, caller_rounds, round_reports>>
    /\ UNCHANGED <<rvars, cvars>>

\* match.add_to_player_stats(p, s)
MAddToPlayerStats(p, s) ==
    /\ mlast' = Called("match_add", 0, p, s, None,
                       <<MatchReport_add_to_player_stats(Match, p, s)>>)
    /\ UNCHANGED <<match_events, caller_rounds, round_reports>>
    /\ UNCHANGED <<rvars, cvars>>

\* match.get_player_stats(p)
MGetPlayerStats(p) ==
    /\ mlast' = Called("match_get", 0, p, PlayerStats, None,
                       <<MatchReport_get_player_stats(Match, p)>>)
    /\ UNCHANGED <<match_events, caller_rounds, round_reports>>
    /\ UNCHANGED <<rvars, cvars>>

MGetFirstAttack ==
    /\ mlast' = Called("first_attack", 0, None, PlayerStats,
                       get_first_attack(Match).raised, get_first_attack(Match).value)
    /\ UNCHANGED <<match_events, caller_rounds, round_reports>>
    /\ UNCHANGED <<rvars, cvars>>

MGetFirstKill ==
    /\ mlast' = Called("first_kill", 0, None, PlayerStats,
                       get_first_kill(Match).raised, get_first_kill(Match).value)
    /\ UNCHANGED <<match_events, caller_rounds, round_reports>>
    /\ UNCHANGED <<rvars, cvars>>

MGetRoundsByWinnerTeam ==
    /\ mlast' = Called("rounds_by_winner", 0, None, PlayerStats, None,
                       <<get_rounds_by_winner_team(Match)>>)
    /\ UNCHANGED <<match_events, caller_rounds, round_reports>>
    /\ UNCHANGED <<rvars, cvars>>

MGetScores ==
    /\ mlast' = Called("scores", 0, None, PlayerStats, None, <<get_scores(Match)>>)
    /\ UNCHANGED <<match_events, caller_rounds, round_reports>>
    /\ UNCHANGED <<rvars, cvars>>

MGetStartTime ==
    /\ mlast' = Called("start_time", 0, None, PlayerStats,
                       get_start_time(Match).raised, get_start_time(Match).value)
    /\ UNCHANGED <<match_events, caller_rounds, round_reports>>
    /\ UNCHANGED <<rvars, cvars>>

MGetEndTime ==
    /\ mlast' = Called("end_time", 0, None, PlayerStats,
                       get_end_time(Match).raised, get_end_time(Match).value)
    /\ UNCHANGED <<match_events, caller_rounds, round_reports>>
    /\ UNCHANGED <<rvars, cvars>>

\* the caller keeps using the lists it passed to MatchReport(...)
CallerAppendMatchEvent(e) ==
    /\ Len(match_events) < MaxEvents
    /\ match_events' = Append(match_events, e)
    /\ mlast' = Called("caller_append_event", 0, None, PlayerStats, None, << >>)
    /\ UNCHANGED <<caller_rounds, round_reports>>
    /\ UNCHANGED <<rvars, cvars>>

CallerPopMatchEvent ==
    /\ match_events # << >>
    /\ match_events' = Tail(match_events)
    /\ mlast' = Called("caller_pop_event", 0, None, PlayerStats, None, << >>)
    /\ UNCHANGED <<caller_rounds, round_reports>>
    /\ UNCHANGED <<rvars, cvars>>

CallerClearRounds ==
    /\ caller_rounds # << >>
    /\ caller_rounds' = << >>
    /\ mlast' = Called("caller_clear_rounds", 0, None, PlayerStats, None, << >>)
    /\ UNCHANGED <<match_events, round_reports>>
    /\ UNCHANGED <<rvars, cvars>>

MNext ==
    \/ \E i \in DOMAIN round_reports, p \in Players, s \in SeedStats :
           MRoundAddToPlayerStats(i, p, s)
    \/ \E i \in DOMAIN round_reports, p \in Players : MRoundGetPlayerStats(i, p)
    \/ \E p \in Players, s \in SeedStats : MAddToPlayerStats(p, s)
    \/ \E p \in Players : MGetPlayerStats(p)
    \/ MGetFirstAttack
    \/ MGetFirstKill
    \/ MGetRoundsByWinnerTeam
    \/ MGetScores
    \/ MGetStartTime
    \/ MGetEndTime
    \/ \E e \in MatchEventCatalog : CallerAppendMatchEvent(e)
    \/ CallerPopMatchEvent
    \/ CallerClearRounds

SpecMatch == MInit /\ [][MNext]_vars

\* ---------------------------------------- SpecColl: one MatchReportCollection
CInit ==
    /\ match_reports \in SeqsUpTo(MatchCatalog, MaxMatches)
    /\ cache = << >>
    /\ computations = 0
    /\ first_return = << >>
    /\ clast = NoCollCall
    /\ RIdle
    /\ MIdle

CollCalled(op, index, order, before, ran, raised, id, value) ==
    [op |-> op, index |-> index, order |-> order, before |-> before, ran |-> ran,
     raised |-> raised, id |-> id, value |-> value]

\* collection.collect_stats()
CCollectStats(orders) ==
    LET r == collect_stats(cache, computations, match_reports, orders)
    IN  /\ cache' = r.cache
        /\ computations' = r.computed
        /\ first_return' = IF first_return = << >> /\ r.raised = None
                           THEN <<[id |-> r.id, table |-> r.value[1]]>>
                           ELSE first_return
        /\ clast' = CollCalled("collect", 0, << >>, << >>, r.ran, r.raised, r.id, r.value)
        /\ UNCHANGED match_reports
        /\ UNCHANGED <<rvars, mvars>>

\* collection.get_total_number_of_rounds()
CGetTotalNumberOfRounds ==
    /\ clast' = CollCalled("total_rounds", 0, << >>, << >>, FALSE, None, 0,
                           <<get_total_number_of_rounds(match_reports)>>)
    /\ UNCHANGED <<match_reports, cache, computations, first_return>>
    /\ UNCHANGED <<rvars, mvars>>

\* list(collection) and len(collection)
CIter ==
    /\ clast' = CollCalled("iter", 0, << >>, << >>, FALSE, None, 0,
                           <<match_reports, Len(match_reports)>>)
    /\ UNCHANGED <<match_reports, cache, computations, first_return>>
    /\ UNCHANGED <<rvars, mvars>>

\* list(collection)[i].add_to_player_stats_table(table), table a caller's dict
CAddToPlayerStatsTable(i, table, order) ==
    LET r == add_to_player_stats_table(match_reports[i], table, order, FALSE)
    IN  /\ clast' = CollCalled("table_add", i, order, table, TRUE, r.raised, 0, <<r.table>>)
        /\ UNCHANGED <<match_reports, cache, computations, first_return>>
        /\ UNCHANGED <<rvars, mvars>>

\* the caller keeps using the container it passed to MatchReportCollection(...)
CallerAppendMatch(m) ==
    /\ Len(match_reports) < MaxMatches
    /\ match_reports' = Append(match_reports, m)
    /\ clast' = CollCalled("caller_append", 0, << >>, << >>, FALSE, None, 0, << >>)
    /\ UNCHANGED <<cache, computations, first_return>>
    /\ UNCHANGED <<rvars, mvars>>

CallerPopMatch ==
    /\ match_reports # << >>
    /\ match_reports' = SubSeq(match_reports, 1, Len(match_reports) - 1)
    /\ clast' = CollCalled("caller_pop", 0, << >>, << >>, FALSE, None, 0, << >>)
    /\ UNCHANGED <<cache, computations, first_return>>
    /\ UNCHANGED <<rvars, mvars>>

CNext ==
    \/ \E orders \in (IF cache = << >> THEN OrdersFor(match_reports) ELSE {<< >>}) :
           CCollectStats(orders)
    \/ CGetTotalNumberOfRounds
    \/ CIter
    \/ \E i \in DOMAIN match_reports, table \in CallerTables :
         \E order \in Perms(MatchReport_get_all_players(match_reports[i])) :
           CAddToPlayerStatsTable(i, table, order)
    \/ \E m \in MatchCatalog : CallerAppendMatch(m)
    \/ CallerPopMatch

SpecColl == CInit /\ [][CNext]_vars

\* ======================================================================
\* Properties
\* ======================================================================

\* ---- helpers of the properties: what the claims call the rostered players
\* of a round, the fold over rounds and the aggregate of a container
Rostered(r, p) ==
    \/ \E k \in DOMAIN r.team_composition[CT_team] : r.team_composition[CT_team][k] = p
    \/ \E k \in DOMAIN r.team_composition[Terrorist_team] :
           r.team_composition[Terrorist_team][k] = p

RoundsOf(reports) ==
    LET RECURSIVE cat(_)
        cat(ms) == IF ms = << >> THEN << >> ELSE Head(ms).round_reports \o cat(Tail(ms))
    IN  cat(reports)

\* fold add_to_player_stats for p over rounds[1..n], from acc
RECURSIVE FoldRounds(_, _, _, _)
FoldRounds(rounds, n, p, acc) ==
    IF n = 0 THEN acc
    ELSE add_to_player_stats(rounds[n], p, FoldRounds(rounds, n - 1, p, acc))

\* accrue only from the rounds in which p is rostered: events, then duration
RECURSIVE AccrueRostered(_, _, _, _)
AccrueRostered(rounds, n, p, acc) ==
    IF n = 0 THEN acc
    ELSE LET s0 == AccrueRostered(rounds, n - 1, p, acc)
             s1 == apply_events(rounds[n].events, p, s0, rounds[n])
         IN  IF Rostered(rounds[n], p)
             THEN [s1 EXCEPT !.time_spent = @ + (rounds[n].end_time - rounds[n].start_time)]
             ELSE s0

AggregateTable(reports) ==
    LET rounds == RoundsOf(reports)
    IN  [p \in {q \in Players : \E n \in DOMAIN rounds : Rostered(rounds[n], q)} |->
            FoldRounds(rounds, Len(rounds), p, PlayerStats)]

NoCounterLower(before, after) ==
    /\ after.damage_inflicted >= before.damage_inflicted
    /\ after.damage_received >= before.damage_received
    /\ after.kills >= before.kills
    /\ after.deaths >= before.deaths
    /\ after.rounds_won >= before.rounds_won
    /\ after.rounds_lost >= before.rounds_lost
    /\ after.time_spent >= before.time_spent
    /\ \A w \in Weapons :
         after.damage_inflicted_by_weapon[w] >= before.damage_inflicted_by_weapon[w]

RoundEnds(events) == Cardinality({k \in DOMAIN events : events[k].kind = "round_end"})

\* C1: once collect_stats() has returned a table, every later collect_stats()
\* call on the same collection returns that same table object with the
\* contents the first call returned, and the body has run exactly once.
C1_Memoized ==
    (clast.op = "collect" /\ first_return # << >>) =>
        /\ clast.raised = None
        /\ clast.id = first_return[1].id
        /\ clast.value = <<first_return[1].table>>
        /\ computations = 1
        /\ cache = first_return

\* C1 witness: a second call answered from the cache with a non-empty table,
\* after the caller changed the container.
C1_Witness ==
    /\ clast.op = "collect"
    /\ ~clast.ran
    /\ DOMAIN clast.value[1] # {}
    /\ cache[1].table # AggregateTable(match_reports)

\* C2: the table a computing collect_stats() returns has an entry for exactly
\* the players rostered in some round of some match, and each entry is the
\* fold of RoundReport.add_to_player_stats over every round of every match,
\* in match order and round order, from a zero PlayerStats.
C2_Additivity ==
    (clast.op = "collect" /\ clast.ran /\ clast.raised = None) =>
        clast.value[1] = AggregateTable(match_reports)

\* C2 witness: a computed table over two matches with different rosters.
C2_Witness ==
    /\ clast.op = "collect"
    /\ clast.ran
    /\ Len(match_reports) >= 2
    /\ MatchReport_get_all_players(match_reports[1]) # MatchReport_get_all_players(match_reports[2])
    /\ \E p \in DOMAIN clast.value[1] : clast.value[1][p].deaths > 0 /\ clast.value[1][p].time_spent > 105

C4_NonParticipant ==
    /\ (mlast.op = "round_add" /\ ~Rostered(round_reports[mlast.index], mlast.player)) =>
          (mlast.raised = None /\ mlast.value = <<mlast.before>>)
    /\ (mlast.op = "round_get" /\ ~Rostered(round_reports[mlast.index], mlast.player)) =>
          (mlast.raised = "AssertionError" /\ mlast.value = << >>)
    /\ mlast.op = "match_add" =>
          mlast.value = <<AccrueRostered(round_reports, Len(round_reports),
                                         mlast.player, mlast.before)>>

\* C4 witness: a spectator's non-zero accumulator went through
\* add_to_player_stats of a round with a positive duration.
C4_Witness ==
    /\ mlast.op = "round_add"
    /\ ~Rostered(round_reports[mlast.index], mlast.player)
    /\ Spectator_team \in DOMAIN round_reports[mlast.index].team_composition
    /\ mlast.player \in Range(round_reports[mlast.index].team_composition[Spectator_team])
    /\ get_round_duration(round_reports[mlast.index]) > 0
    /\ mlast.before.time_spent > 0

C8_Monotonic ==
    rlast.op = "add" => NoCounterLower(rlast.before, stats)

\* C8 amended: no counter of the accumulator is lower after an
\* add_to_player_stats call than before it, provided the round's end_time is
\* not before its start_time.
C8_MonotonicWhenOrdered ==
    (rlast.op = "add" /\ round.end_time >= round.start_time) =>
        NoCounterLower(rlast.before, stats)

\* C8 witness: a second accumulation of a participant on a round of positive
\* duration that has events.
C8_Witness ==
    /\ rlast.op = "add"
    /\ ncalls = 2
    /\ Rostered(round, rlast.player)
    /\ round.end_time > round.start_time
    /\ round.events # << >>
    /\ rlast.before.time_spent > 0
    /\ stats.time_spent > rlast.before.time_spent

\* what the accessors of the MatchReport and of its rounds return
Accessors ==
    <<get_round_reports(Match), get_start_time(Match), get_end_time(Match),
      get_scores(Match), get_map_name(Match),
      [k \in DOMAIN round_reports |->
          <<get_events(round_reports[k]), round_reports[k].team_composition,
            get_all_players(round_reports[k])>>]>>

\* C6: RoundReport and MatchReport are immutable after construction: whatever
\* the caller does to the lists it passed to the constructors, every
\* accessor keeps returning what it returned right after construction, i.e.
\* no step changes what an accessor returns.
C6_Immutable == [][Accessors' = Accessors]_vars

\* C7: once collect_stats() has been called, the memoized table equals the
\* aggregate of the matches the collection currently exposes, whatever the
\* caller did to the container it passed to the constructor.
C7_CacheConsistent ==
    cache # << >> => cache[1].table = AggregateTable(match_reports)

\* the index of the first player of `order` that has no accumulator in `table`
\* (Len(order) + 1 when every player has one)
FirstMissing(order, table) ==
    IF \A k \in DOMAIN order : order[k] \in DOMAIN table THEN Len(order) + 1
    ELSE CHOOSE k \in DOMAIN order :
            /\ order[k] \notin DOMAIN table
            /\ \A j \in 1..(k - 1) : order[j] \in DOMAIN table

\* C9 as stated: when an aggregation call fails, every accumulator of the
\* caller's table is field for field as it was before the call.
C9_AllOrNothing ==
    (clast.op = "table_add" /\ clast.raised # None) => clast.value = <<clast.before>>

\* C9 amended: add_to_player_stats_table fails exactly when the table lacks
\* an accumulator for one of the match's players, with KeyError; it then
\* leaves the accumulators of the players visited before the missing one
\* accrued with the whole match (no rollback), every other accumulator as it
\* was, and adds no key.  collect_stats never fails this way (its table
\* creates missing accumulators) and memoizes what it returns.
C9_PartialOnKeyError ==
    /\ clast.op = "collect" => (clast.raised = None /\ cache # << >>)
    /\ clast.op = "table_add" =>
          LET match == match_reports[clast.index]
              k == FirstMissing(clast.order, clast.before)
              visited == {clast.order[j] : j \in 1..(k - 1)}
              after == clast.value[1]
          IN  /\ clast.raised = (IF k <= Len(clast.order) THEN "KeyError" ELSE None)
              /\ DOMAIN after = DOMAIN clast.before
              /\ \A p \in DOMAIN after :
                    after[p] = IF p \in visited
                               THEN FoldRounds(match.round_reports, Len(match.round_reports),
                                               p, clast.before[p])
                               ELSE clast.before[p]

\* C9 witness: a failed add_to_player_stats_table that left an accumulator
\* changed.
C9_Witness ==
    /\ clast.op = "table_add"
    /\ clast.raised = "KeyError"
    /\ \E p \in DOMAIN clast.before : clast.value[1][p] # clast.before[p]

HasAttack(events) == \E k \in DOMAIN events : events[k].kind = "attack"

\* the first event of the given kind, rounds in round order and each round's
\* events in event order
IsFirstOfKind(e, kind) ==
    \E i \in DOMAIN round_reports : \E j \in DOMAIN round_reports[i].events :
        /\ round_reports[i].events[j] = e
        /\ e.kind = kind
        /\ \A i2 \in DOMAIN round_reports : \A j2 \in DOMAIN round_reports[i2].events :
              (i2 < i \/ (i2 = i /\ j2 < j)) => round_reports[i2].events[j2].kind # kind

\* C10 as stated: get_first_attack() fails exactly when the match has no
\* attack event at all, neither in a round nor in the match-level event list.
C10_FailsIffNoAttackAnywhere ==
    mlast.op = "first_attack" =>
        (mlast.raised # None <=>
            /\ \A i \in DOMAIN round_reports : ~HasAttack(round_reports[i].events)
            /\ ~HasAttack(match_events))

\* C10 amended: get_first_attack() returns the first attack event in round
\* order and event order, and fails exactly when no round contains an attack
\* event (the match-level event list is not looked at); get_first_kill()
\* returns the first kill in the same order and fails, with another error
\* than get_first_attack(), when no round contains a kill.
C10_FirstAttackOfRounds ==
    /\ mlast.op = "first_attack" =>
          /\ mlast.raised # None <=>
                \A i \in DOMAIN round_reports : ~HasAttack(round_reports[i].events)
          /\ mlast.raised # None => (mlast.raised = "Exception" /\ mlast.value = << >>)
          /\ mlast.raised = None =>
                (Len(mlast.value) = 1 /\ IsFirstOfKind(mlast.value[1], "attack"))
    /\ mlast.op = "first_kill" =>
          /\ mlast.raised # None <=>
                \A i \in DOMAIN round_reports : \A j \in DOMAIN round_reports[i].events :
                    round_reports[i].events[j].kind # "kill"
          /\ mlast.raised # None => (mlast.raised = "StopIteration" /\ mlast.value = << >>)
          /\ mlast.raised = None =>
                (Len(mlast.value) = 1 /\ IsFirstOfKind(mlast.value[1], "kill"))

\* C10 witness: get_first_attack() failed on a match whose match-level event
\* list holds an attack event.
C10_Witness ==
    /\ mlast.op = "first_attack"
    /\ mlast.raised = "Exception"
    /\ round_reports # << >>
    /\ HasAttack(match_events)

====
